---------------------------- MODULE Spec2Model ----------------------------
(***************************************************************************)
(* Vendor evaluation scoring and vote-based decision tracking, with the    *)
(* evaluation form's remark dialog, the database connection of server.js   *)
(* and the deployment-errors endpoint.                                     *)
(*                                                                         *)
(* Numbers.  The component computes with IEEE doubles.  Here a criterion   *)
(* score v is held as the integer v * Scale ("ticks"), a weight 0.07 as    *)
(* the integer 7 (percent), and a weighted score x% as the integer         *)
(* x * PercentUnit, so the arithmetic of calculateWeightedScore is exact   *)
(* rational arithmetic.  The rounding error of the double computation      *)
(* (below 1e-12 for the magnitudes used here) is not modelled; toFixed(2), *)
(* the only rounding the component itself performs, is.                    *)
(***************************************************************************)
EXTENDS Integers, Sequences, FiniteSets, TLC

\* Ticks per score point: the resolution at which score values are held.
Scale == 100
\* Model units per one percent of weighted score: (v / 10) * w * 100 with
\* v = n / Scale and w = p / 100 is (n * p) / (10 * Scale) percent.
PercentUnit == 10 * Scale
\* Number of input edits followed from an initial draft.
MaxEdits == 2

\* Requests POSTed to /api/evaluations, by the form or by other clients.
MaxRequests == 1
\* Vote requests and resolver re-runs handled.
MaxVoteOps == 4

VARIABLES
  newEvaluation,   \* useState(emptyEvaluation): the draft's 18 scores, in ticks
  panel,           \* the rendered progress panel: hundredths of a percent
  edits,           \* number of onChange events handled so far
  calls,           \* handleSubmitEvaluation invocations: body sent, progress
  toast,           \* the last toast shown
  evaluations,     \* the Evaluation table, in order of creation
  bodyScores,      \* per Evaluation row, the overallScore its request carried
  directPosts,     \* number of POSTs made by other clients
  votes,           \* the VendorVote table
  nextVoteId,      \* VendorVote's autoincrement
  finalDecision,   \* Vendor.finalDecision, per vendor
  castHistory,     \* per (vendor, user), the votes cast, oldest first
  lastResult,      \* per vendor, what the resolver last returned
  runsSinceCast,   \* per vendor, resolver runs since the vote set last changed
  voteOps,         \* number of vote requests and re-runs handled
  voteReqs,        \* vote requests being handled step by step
  databaseUrlSet,  \* whether process.env.DATABASE_URL is set
  prisma,          \* server.js: the module-level client (0 is null)
  isConnected,     \* server.js: let isConnected
  connectionRetries, \* server.js: let connectionRetries
  clients,         \* the Prisma clients created, by id: state of $connect
  dbCalls,         \* the connectDB calls made, in order
  apiReqs,         \* requests that reached the /api middleware
  healthReqs,      \* GET /api/health requests
  remarkField,     \* useState: the criterion the remark dialog is for
  remarkDialogOpen, \* useState: whether the remark dialog is open
  currentRemark,   \* useState: the text in the dialog's textarea
  remarkTimer,     \* the pending setTimeout of the debounce effect
  draftRemarks,    \* the remark keys of newEvaluation ("" is undefined)
  lastSave,        \* what the textarea held at the last 'Save Remark' click
  deploymentErrors, \* the DeploymentError table, in order of creation
  errorReqs        \* requests handled by /api/deployment/errors, answers

scoreVars == <<newEvaluation, panel, edits>>
submitVars == <<calls, toast, evaluations, bodyScores, directPosts>>
voteVars == <<votes, nextVoteId, finalDecision, castHistory, lastResult,
              runsSinceCast, voteOps>>
concVars == <<voteReqs>>
serverVars == <<databaseUrlSet, prisma, isConnected, connectionRetries,
                clients, dbCalls, apiReqs, healthReqs>>
dialogVars == <<remarkField, remarkDialogOpen, currentRemark, remarkTimer>>
remarkVars == <<dialogVars, draftRemarks, lastSave>>
errVars == <<deploymentErrors, errorReqs>>
hostVars == <<concVars, serverVars, errVars>>
vars == <<scoreVars, submitVars, voteVars, remarkVars, hostVars>>

\* The 18 score columns of the Evaluation model, in schema order.
ScoreFieldList ==
  << "experienceScore", "caseStudiesScore", "domainExperienceScore",
     "approachAlignmentScore", "understandingChallengesScore", "solutionTailoringScore",
     "strategyAlignmentScore", "methodologyScore", "innovativeStrategiesScore",
     "stakeholderEngagementScore", "toolsFrameworkScore",
     "costStructureScore", "costEffectivenessScore", "roiScore",
     "referencesScore", "testimonialsScore", "sustainabilityScore",
     "deliverablesScore" >>

ScoreFields == {ScoreFieldList[i] : i \in 1..Len(ScoreFieldList)}

\* The schema's grouping of the score columns under its six category comments.
SchemaCategory ==
  [ experience   |-> {"experienceScore", "caseStudiesScore", "domainExperienceScore"},
    objectives   |-> {"approachAlignmentScore", "understandingChallengesScore",
                      "solutionTailoringScore"},
    methodology  |-> {"strategyAlignmentScore", "methodologyScore",
                      "innovativeStrategiesScore", "stakeholderEngagementScore",
                      "toolsFrameworkScore"},
    cost         |-> {"costStructureScore", "costEffectivenessScore", "roiScore"},
    references   |-> {"referencesScore", "testimonialsScore", "sustainabilityScore"},
    deliverables |-> {"deliverablesScore"} ]

\* The percentage the schema's comment gives each category.
SchemaCategoryPercent ==
  [ experience |-> 25, objectives |-> 20, methodology |-> 26,
    cost |-> 14, references |-> 10, deliverables |-> 5 ]

Categories == DOMAIN SchemaCategory

emptyEvaluation == [f \in ScoreFields |-> 0]

--------------------------------------------------------------------------
(* calculateWeightedScore: six category terms, each "(sum of v/10*w) * 100" *)

experienceWeight(scores) ==
    scores.experienceScore * 10
  + scores.caseStudiesScore * 10
  + scores.domainExperienceScore * 5

\* Faulty variant: approachAlignment weighted 0.08 instead of 0.07.
understandingWeight_w8(scores) ==
    scores.approachAlignmentScore * 8
  + scores.understandingChallengesScore * 7
  + scores.solutionTailoringScore * 6

understandingWeight(scores) ==
    scores.approachAlignmentScore * 7
  + scores.understandingChallengesScore * 7
  + scores.solutionTailoringScore * 6

\* Faulty variant: the 3% term reads roiScore instead of toolsFrameworkScore.
methodologyWeight_roi(scores) ==
    scores.strategyAlignmentScore * 7
  + scores.methodologyScore * 6
  + scores.innovativeStrategiesScore * 5
  + scores.stakeholderEngagementScore * 5
  + scores.roiScore * 3

methodologyWeight(scores) ==
    scores.strategyAlignmentScore * 7
  + scores.methodologyScore * 6
  + scores.innovativeStrategiesScore * 5
  + scores.stakeholderEngagementScore * 5
  + scores.toolsFrameworkScore * 3

\* Faulty variant: roi weighted 0.05 instead of 0.03.
costWeight_roi5(scores) ==
    scores.costStructureScore * 6
  + scores.costEffectivenessScore * 5
  + scores.roiScore * 5

costWeight(scores) ==
    scores.costStructureScore * 6
  + scores.costEffectivenessScore * 5
  + scores.roiScore * 3

referencesWeight(scores) ==
    scores.referencesScore * 6
  + scores.testimonialsScore * 2
  + scores.sustainabilityScore * 2

\* Faulty variant: "+ 0.05" typed for "* 0.05": (v / 10 + 0.05) * 100.
deliverablesWeight_plus(scores) ==
    scores.deliverablesScore * 100 + 5 * PercentUnit

deliverablesWeight(scores) ==
    scores.deliverablesScore * 5

calculateWeightedScore(scores) ==
    experienceWeight(scores) + understandingWeight(scores)
  + methodologyWeight(scores) + costWeight(scores)
  + referencesWeight(scores) + deliverablesWeight(scores)

\* The six category terms of calculateWeightedScore, by category.
categoryTerm(c, scores) ==
  CASE c = "experience"   -> experienceWeight(scores)
    [] c = "objectives"   -> understandingWeight(scores)
    [] c = "methodology"  -> methodologyWeight(scores)
    [] c = "cost"         -> costWeight(scores)
    [] c = "references"   -> referencesWeight(scores)
    [] c = "deliverables" -> deliverablesWeight(scores)

\* Number.prototype.toFixed(2) of a weighted score: the nearest multiple of
\* 0.01, the larger magnitude on a tie; the result in hundredths of a percent.
toFixed2(x) ==
  LET a == IF x < 0 THEN -x ELSE x
      h == (2 * 100 * a + PercentUnit) \div (2 * PercentUnit)
  IN  IF x < 0 THEN -h ELSE h


--------------------------------------------------------------------------
(* The progress panel: its six category expressions carry their own copies *)
(* of the weights; each is shown with toFixed(2), as is the Total Score.   *)

progressExperience(e) ==
    e.experienceScore * 10
  + e.caseStudiesScore * 10
  + e.domainExperienceScore * 5

progressUnderstanding(e) ==
    e.approachAlignmentScore * 7
  + e.understandingChallengesScore * 7
  + e.solutionTailoringScore * 6

\* Faulty variant: the panel's copy weights innovativeStrategies 0.06, not 0.05.
progressMethodology_w6(e) ==
    e.strategyAlignmentScore * 7
  + e.methodologyScore * 6
  + e.innovativeStrategiesScore * 6
  + e.stakeholderEngagementScore * 5
  + e.toolsFrameworkScore * 3

progressMethodology(e) ==
    e.strategyAlignmentScore * 7
  + e.methodologyScore * 6
  + e.innovativeStrategiesScore * 5
  + e.stakeholderEngagementScore * 5
  + e.toolsFrameworkScore * 3

progressCost(e) ==
    e.costStructureScore * 6
  + e.costEffectivenessScore * 5
  + e.roiScore * 3

progressReferences(e) ==
    e.referencesScore * 6
  + e.testimonialsScore * 2
  + e.sustainabilityScore * 2

progressDeliverables(e) ==
    e.deliverablesScore * 5

\* The unrounded value behind the panel's line for category c.
progressValue(c, e) ==
  CASE c = "experience"   -> progressExperience(e)
    [] c = "objectives"   -> progressUnderstanding(e)
    [] c = "methodology"  -> progressMethodology(e)
    [] c = "cost"         -> progressCost(e)
    [] c = "references"   -> progressReferences(e)
    [] c = "deliverables" -> progressDeliverables(e)

\* The weight each call of renderScoreInput passes, '10%' as 10.
InputWeight ==
  [ experienceScore |-> 10, caseStudiesScore |-> 10, domainExperienceScore |-> 5,
    approachAlignmentScore |-> 7, understandingChallengesScore |-> 7,
    solutionTailoringScore |-> 6,
    strategyAlignmentScore |-> 7, methodologyScore |-> 6,
    innovativeStrategiesScore |-> 5, stakeholderEngagementScore |-> 5,
    toolsFrameworkScore |-> 3,
    costStructureScore |-> 6, costEffectivenessScore |-> 5, roiScore |-> 3,
    referencesScore |-> 6, testimonialsScore |-> 2, sustainabilityScore |-> 2,
    deliverablesScore |-> 5 ]

\* renderScoreInput's 'Weighted Score' line for a criterion:
\* ((score * weightValue) * 100).toFixed(2) with weightValue = weight / 100.
\* A score of n ticks times p percent is (n * p) / Scale percent, which is
\* n * p * 10 units of 1 / PercentUnit percent.
renderScoreInput(field, e) ==
  toFixed2(e[field] * InputWeight[field] * 10)

\* What is shown for draft e: the six category lines and the total of the
\* progress panel, and the 'Weighted Score' line of each score input.
RenderPanel(e) ==
  [ category |-> [c \in Categories |-> toFixed2(progressValue(c, e))],
    total    |-> toFixed2(calculateWeightedScore(e)),
    weighted |-> [f \in ScoreFields |-> renderScoreInput(f, e)] ]

--------------------------------------------------------------------------
(* The score inputs.  e.target.value of an <input type="number"> is either *)
(* the empty string, <<>> here, or a numeral, <<n>> for n ticks; min/max   *)
(* do not restrict what is typed.                                          *)

\* parseFloat(e.target.value) || 0
parseFloatOrZero(text) ==
  IF text = <<>> THEN 0 ELSE text[1]

\* A score typed with two decimals (0.08 at Scale = 100).
FineInput == (8 * Scale) \div 100

\* What is typed into a score input: nothing, 0.08, 10, 11.
InputTexts ==
  { <<>>, <<FineInput>>, <<10 * Scale>>, <<11 * Scale>> }

\* onChange of the score input of `field`, followed by the re-render.
ScoreChange(field, text) ==
  /\ newEvaluation' = [newEvaluation EXCEPT ![field] = parseFloatOrZero(text)]
  /\ panel' = RenderPanel(newEvaluation')

\* Drafts the form can hold, from which the edits of SpecScore start: the
\* empty draft, every score 10, and the worked example (8, 6, 10, then 5s).
Uniform(n) == [f \in ScoreFields |-> n]

GoldenExample ==
  [f \in ScoreFields |->
     CASE f = "experienceScore"       -> 8 * Scale
       [] f = "caseStudiesScore"      -> 6 * Scale
       [] f = "domainExperienceScore" -> 10 * Scale
       [] OTHER                       -> 5 * Scale]

BaseDrafts ==
  { emptyEvaluation, Uniform(10 * Scale), GoldenExample }

--------------------------------------------------------------------------
(* Remarks.  The remark dialog, and the debounced effect that copies the    *)
(* dialog's text into the draft.  An event handler, the re-render and the   *)
(* effects it schedules are one step: React runs them before it handles the *)
(* next event.  The 300 ms of the timer are not counted: a pending timer    *)
(* may fire at any later step, and a click may come before it does.         *)

\* The criteria whose remark button is followed, and what the textarea of
\* the dialog may hold.
RemarkFields == {"experienceScore", "roiScore"}
RemarkTexts == {"", "a", "ab"}

\* `${field}Remark`: the key the component keeps a criterion's remark under.
remarkKey(field) == field \o "Remark"
RemarkKeys == {remarkKey(f) : f \in RemarkFields}

\* emptyEvaluation has no remark key: every remark is undefined.
emptyRemarks == [k \in RemarkKeys |-> ""]

NoTimer == [pending |-> FALSE, key |-> "", text |-> ""]
NoSave == [clicked |-> FALSE, field |-> "null", text |-> ""]

\* The effect on [currentRemark, remarkField]: when a dependency changed,
\* the cleanup clears the timer of the previous run, and a new timer is set
\* if a criterion is selected and the text is not empty.
debounceEffect(oldField, oldText, field, text, timer) ==
  IF oldField = field /\ oldText = text THEN timer
  ELSE IF field /= "null" /\ text /= ""
       THEN [pending |-> TRUE, key |-> remarkKey(field), text |-> text]
       ELSE NoTimer

\* The 'Add Remark' / 'Edit Remark' button of a criterion.
OpenRemark(field) ==
  /\ ~remarkDialogOpen
  /\ remarkField' = field
  /\ currentRemark' = draftRemarks[remarkKey(field)]
  /\ remarkDialogOpen' = TRUE
  /\ remarkTimer' = debounceEffect(remarkField, currentRemark,
                                   remarkField', currentRemark', remarkTimer)
  /\ lastSave' = NoSave
  /\ UNCHANGED <<draftRemarks, scoreVars, submitVars, voteVars, hostVars>>

\* onChange of the dialog's textarea.
TypeRemark(text) ==
  /\ remarkDialogOpen
  /\ text /= currentRemark
  /\ currentRemark' = text
  /\ remarkTimer' = debounceEffect(remarkField, currentRemark,
                                   remarkField, text, remarkTimer)
  /\ UNCHANGED <<remarkField, remarkDialogOpen, draftRemarks, lastSave,
                 scoreVars, submitVars, voteVars, hostVars>>

\* The setTimeout callback of the effect.
RemarkTimerFire ==
  /\ remarkTimer.pending
  /\ draftRemarks' = [draftRemarks EXCEPT ![remarkTimer.key] = remarkTimer.text]
  /\ remarkTimer' = NoTimer
  /\ UNCHANGED <<remarkField, remarkDialogOpen, currentRemark, lastSave,
                 scoreVars, submitVars, voteVars, hostVars>>

\* The dialog's Cancel button (and onOpenChange): only the dialog closes.
CancelRemark ==
  /\ remarkDialogOpen
  /\ remarkDialogOpen' = FALSE
  /\ UNCHANGED <<remarkField, currentRemark, remarkTimer, draftRemarks,
                 lastSave, scoreVars, submitVars, voteVars, hostVars>>

\* handleRemarkSave: the state it leaves, from the criterion and the text.
handleRemarkSave(field, text) ==
  IF field /= "null"
  THEN [open |-> FALSE, text |-> "", field |-> "null"]
  ELSE [open |-> TRUE, text |-> text, field |-> field]

\* The dialog's 'Save Remark' button.
SaveRemark ==
  /\ remarkDialogOpen
  /\ LET after == handleRemarkSave(remarkField, currentRemark)
     IN  /\ remarkDialogOpen' = after.open
         /\ currentRemark' = after.text
         /\ remarkField' = after.field
         /\ remarkTimer' = debounceEffect(remarkField, currentRemark,
                                          after.field, after.text, remarkTimer)
  /\ lastSave' = [clicked |-> TRUE, field |-> remarkField, text |-> currentRemark]
  /\ UNCHANGED <<draftRemarks, scoreVars, submitVars, voteVars, hostVars>>

--------------------------------------------------------------------------
(* Submitting the draft: handleSubmitEvaluation, and the handler of         *)
(* POST /api/evaluations it calls.  The handler's code is not among the     *)
(* repository's files here; it is modelled from the specification.          *)

\* The score inputs edited while a submission is followed, and what is
\* typed into them: nothing, 5, 11.
SubmitFields == {"experienceScore", "deliverablesScore"}
SubmitTexts == { <<>>, <<5 * Scale>>, <<11 * Scale>> }

\* handleSubmitEvaluation up to its await: the overall score is computed
\* from the draft and the request is sent.
SubmitClick ==
  /\ Len(calls) + directPosts < MaxRequests
  /\ LET overallScore == calculateWeightedScore(newEvaluation)
     IN  calls' = Append(calls, [ scores       |-> newEvaluation,
                                  overallScore |-> overallScore,
                                  state        |-> "sent",
                                  response     |-> "none" ])
  /\ UNCHANGED <<newEvaluation, panel, edits, toast, evaluations, bodyScores,
                 directPosts, voteVars, remarkVars, hostVars>>

\* The boundary validation: every criterion present, every value in [0,10].
ValidSubmission(scores) ==
  /\ DOMAIN scores = ScoreFields
  /\ \A f \in ScoreFields : 0 <= scores[f] /\ scores[f] <= 10 * Scale

\* Faulty variant: the handler stores the overallScore of the request body.
StoredOverallScore_fromBody(body) == body.overallScore

\* The overallScore the handler stores for a request body.
StoredOverallScore(body) == calculateWeightedScore(body.scores)

\* The handler's response to a request body: "ok" and the row it creates,
\* "invalid" for a body that fails validation, "unavailable" when the
\* database cannot be reached.
PostEvaluation(body, dbUp) ==
  IF ~ValidSubmission(body.scores) THEN [response |-> "invalid", rows |-> <<>>]
  ELSE IF ~dbUp THEN [response |-> "unavailable", rows |-> <<>>]
  ELSE [ response |-> "ok",
         rows     |-> << [ scores       |-> body.scores,
                           overallScore |-> StoredOverallScore(body),
                           status       |-> "COMPLETED" ] >> ]

\* The server handles the request of call i.
ServerHandle(i, dbUp) ==
  /\ calls[i].state = "sent"
  /\ LET r == PostEvaluation(calls[i], dbUp)
     IN  /\ evaluations' = evaluations \o r.rows
         /\ bodyScores' = bodyScores \o [k \in 1..Len(r.rows) |-> calls[i].overallScore]
         /\ calls' = [calls EXCEPT ![i].state = "responded",
                                   ![i].response = r.response]
  /\ UNCHANGED <<newEvaluation, panel, edits, toast, directPosts, voteVars, remarkVars, hostVars>>

\* fetch rejects: the request of call i never reaches the server.
FetchThrows(i) ==
  /\ calls[i].state = "sent"
  /\ calls' = [calls EXCEPT ![i].state = "responded", ![i].response = "threw"]
  /\ UNCHANGED <<newEvaluation, panel, edits, toast, evaluations, bodyScores,
                 directPosts, voteVars, remarkVars, hostVars>>

\* Faulty variant: the draft is reset whatever the response was.
SubmitReturn_alwaysReset(i) ==
  /\ calls[i].state = "responded"
  /\ calls' = [calls EXCEPT ![i].state = "finished"]
  /\ toast' = IF calls[i].response = "ok"
              THEN [variant |-> "default", shown |-> toFixed2(calls[i].overallScore)]
              ELSE [variant |-> "destructive", shown |-> 0]
  /\ newEvaluation' = emptyEvaluation
  /\ draftRemarks' = emptyRemarks
  /\ lastSave' = NoSave
  /\ panel' = RenderPanel(newEvaluation')
  /\ UNCHANGED <<edits, evaluations, bodyScores, directPosts, voteVars,
                 dialogVars, hostVars>>

\* handleSubmitEvaluation after its await: on an ok response the success
\* toast and the reset of the draft, otherwise the error toast.
SubmitReturn(i) ==
  /\ calls[i].state = "responded"
  /\ calls' = [calls EXCEPT ![i].state = "finished"]
  /\ IF calls[i].response = "ok"
     THEN /\ toast' = [variant |-> "default", shown |-> toFixed2(calls[i].overallScore)]
          /\ newEvaluation' = emptyEvaluation
          /\ draftRemarks' = emptyRemarks
          /\ lastSave' = NoSave
          /\ panel' = RenderPanel(newEvaluation')
     ELSE /\ toast' = [variant |-> "destructive", shown |-> 0]
          /\ UNCHANGED <<newEvaluation, draftRemarks, lastSave, panel>>
  /\ UNCHANGED <<edits, evaluations, bodyScores, directPosts, voteVars,
                 dialogVars, hostVars>>

\* Request bodies another HTTP client may POST: all scores 10, one score
\* 11, one criterion missing; with an overallScore of its own choosing.
DirectScores ==
  { Uniform(10 * Scale),
    [Uniform(10 * Scale) EXCEPT !["roiScore"] = 11 * Scale],
    [f \in ScoreFields \ {"roiScore"} |-> 10 * Scale] }
DirectOverallScores == { 100 * PercentUnit, 120 * PercentUnit }

\* Another client POSTs a body to /api/evaluations and the server handles it.
DirectPost(scores, overallScore, dbUp) ==
  /\ Len(calls) + directPosts < MaxRequests
  /\ directPosts' = directPosts + 1
  /\ LET body == [scores |-> scores, overallScore |-> overallScore]
         r    == PostEvaluation(body, dbUp)
     IN  /\ evaluations' = evaluations \o r.rows
         /\ bodyScores' = bodyScores \o [k \in 1..Len(r.rows) |-> overallScore]
  /\ UNCHANGED <<newEvaluation, panel, edits, calls, toast, voteVars, remarkVars, hostVars>>

--------------------------------------------------------------------------
(* Votes and the final decision.  The schema declares the VendorVote table  *)
(* and Vendor.finalDecision; the voting handler and the resolver are not    *)
(* among the repository's files here and are modelled from the             *)
(* specification.  A tie (PENDING) is stored as a null finalDecision.       *)

Vendors == {1, 2}
Users == {1, 2, 3}
VoteValues == {"ACCEPT", "REJECT"}

\* The votes stored for vendor v.
VotesOf(rows, v) == {r \in rows : r.vendorId = v}

\* @@unique([vendorId, userId]): no two rows share a vendor and a user.
UniqueVendorUser(rows) ==
  \A r1, r2 \in rows :
    (r1.vendorId = r2.vendorId /\ r1.userId = r2.userId) => r1 = r2

\* Faulty variant: the handler inserts a row for every vote request.
upsertVote_insert(rows, id, v, u, x) ==
  rows \cup {[id |-> id, vendorId |-> v, userId |-> u, vote |-> x]}

\* Upsert keyed on (vendorId, userId): the user's row for the vendor gets
\* the new vote, or a row is created under the next id.
upsertVote(rows, id, v, u, x) ==
  IF \E r \in rows : r.vendorId = v /\ r.userId = u
  THEN {IF r.vendorId = v /\ r.userId = u THEN [r EXCEPT !.vote = x] ELSE r : r \in rows}
  ELSE rows \cup {[id |-> id, vendorId |-> v, userId |-> u, vote |-> x]}

\* Faulty variant: a tie goes to ACCEPTED.
resolveDecision_tieAccepts(vs) ==
  LET accept == Cardinality({r \in vs : r.vote = "ACCEPT"})
      reject == Cardinality({r \in vs : r.vote = "REJECT"})
  IN  IF accept >= reject THEN "ACCEPTED" ELSE "REJECTED"

\* resolveDecision over a vendor's stored votes.
resolveDecision(vs) ==
  LET accept == Cardinality({r \in vs : r.vote = "ACCEPT"})
      reject == Cardinality({r \in vs : r.vote = "REJECT"})
  IN  IF accept > reject THEN "ACCEPTED"
      ELSE IF reject > accept THEN "REJECTED"
      ELSE "PENDING"

\* Faulty variant: writing the decision already stored clears it.
persistDecision_toggle(stored, decision) ==
  IF decision = "PENDING" \/ decision = stored THEN "NULL" ELSE decision

\* What Vendor.finalDecision holds after `decision` is written over `stored`.
persistDecision(stored, decision) ==
  IF decision = "PENDING" THEN "NULL" ELSE decision

\* The resolver runs for vendor v over `rows`, and its result is persisted.
ResolveAndPersist(rows, v) ==
  LET decision == resolveDecision(VotesOf(rows, v))
  IN  /\ lastResult' = [lastResult EXCEPT ![v] = decision]
      /\ finalDecision' = [finalDecision EXCEPT ![v] =
                             persistDecision(finalDecision[v], decision)]

\* The voting endpoint handles {vendorId: v, userId: u, vote: x}: upsert,
\* then decision resolution for v, then the write of finalDecision.  A
\* write that would break the table's unique constraint is refused by the
\* database and the request fails there.
CastVote(v, u, x) ==
  /\ voteOps < MaxVoteOps
  /\ voteOps' = voteOps + 1
  /\ castHistory' = [castHistory EXCEPT ![v][u] = Append(@, x)]
  /\ LET upserted == upsertVote(votes, nextVoteId, v, u, x)
     IN  IF UniqueVendorUser(upserted)
         THEN /\ votes' = upserted
              /\ nextVoteId' = IF Cardinality(upserted) > Cardinality(votes)
                               THEN nextVoteId + 1 ELSE nextVoteId
              /\ ResolveAndPersist(upserted, v)
              /\ runsSinceCast' = [runsSinceCast EXCEPT ![v] = 1]
         ELSE UNCHANGED <<votes, nextVoteId, finalDecision, lastResult,
                          runsSinceCast>>
  /\ UNCHANGED <<scoreVars, submitVars, remarkVars, hostVars>>

\* Decision resolution runs again for v on the unchanged vote set.
ResolveAgain(v) ==
  /\ voteOps < MaxVoteOps
  /\ voteOps' = voteOps + 1
  /\ ResolveAndPersist(votes, v)
  /\ runsSinceCast' = [runsSinceCast EXCEPT ![v] = @ + 1]
  /\ UNCHANGED <<votes, nextVoteId, castHistory, scoreVars, submitVars,
                 remarkVars, hostVars>>

--------------------------------------------------------------------------
(* Vote requests handled concurrently.  A request is two steps of the       *)
(* persistence layer: the upsert of its vote, then decision resolution and  *)
(* the write of finalDecision, which the specification makes one            *)
(* transactional read-modify-write per vendor.  Other requests may run      *)
(* between the two.                                                         *)

\* Vote requests followed step by step.
MaxVoteReqs == 3

\* Faulty variant: the resolver is given the votes the request saw right
\* after its own upsert.
votesAtWrite_stale(seen, current) == seen

\* The votes the resolver reads: those in the table inside the transaction
\* that writes finalDecision.
votesAtWrite(seen, current) == current

\* A request {vendorId: v, userId: u, vote: x} arrives and upserts its vote.
VoteUpsert(v, u, x) ==
  /\ Len(voteReqs) < MaxVoteReqs
  /\ LET upserted == upsertVote(votes, nextVoteId, v, u, x)
     IN  /\ votes' = upserted
         /\ nextVoteId' = IF Cardinality(upserted) > Cardinality(votes)
                          THEN nextVoteId + 1 ELSE nextVoteId
         /\ voteReqs' = Append(voteReqs,
              [ vendorId |-> v, userId |-> u, vote |-> x, pc |-> "upserted",
                seen |-> upserted,
                overlapped |-> \E k \in 1..Len(voteReqs) :
                                 voteReqs[k].pc = "upserted" ])
  /\ UNCHANGED <<finalDecision, lastResult, castHistory, runsSinceCast, voteOps,
                 scoreVars, submitVars, remarkVars, databaseUrlSet, prisma,
                 isConnected, connectionRetries, clients, dbCalls, apiReqs,
                 healthReqs, errVars>>

\* Request i resolves the decision of its vendor and writes finalDecision.
VoteResolveWrite(i) ==
  /\ voteReqs[i].pc = "upserted"
  /\ ResolveAndPersist(votesAtWrite(voteReqs[i].seen, votes), voteReqs[i].vendorId)
  /\ voteReqs' = [voteReqs EXCEPT ![i].pc = "done"]
  /\ UNCHANGED <<votes, nextVoteId, castHistory, runsSinceCast, voteOps,
                 scoreVars, submitVars, remarkVars, databaseUrlSet, prisma,
                 isConnected, connectionRetries, clients, dbCalls, apiReqs,
                 healthReqs, errVars>>

--------------------------------------------------------------------------
(* server.js: the database connection.  connectDB is an async function; a   *)
(* call of it runs up to its next await in the step that calls or resumes   *)
(* it, and other callbacks run while it awaits.  The outcome of $connect,   *)
(* $disconnect and of the health probe is the database's: either.           *)
(* A client is known by its number, in order of creation; 0 is null.        *)

\* server.js line 34, with DB_MAX_RETRIES unset.
MAX_RETRIES == 5
\* Requests under /api that reach the middleware.
MaxApiReqs == 1
\* Requests of GET /api/health.
MaxHealthReqs == 1
\* Calls of connectDB by startServer and by requests, and Prisma clients
\* created, when requests of every kind are followed.
MaxDbCalls == 2
MaxClients == 3
\* The same when one call's retries are followed to the end.
MaxRetryCalls == 2
MaxRetryClients == 8

\* The module-level variables of server.js, as one value.
ServerState ==
  [ prisma |-> prisma, isConnected |-> isConnected,
    connectionRetries |-> connectionRetries, clients |-> clients ]

\* A call of connectDB that has not run yet.
NewCall == [pc |-> "called", client |-> 0, attempts |-> 0, result |-> "none"]

\* connectDB, the catch block: the connection is marked down, and the call
\* waits RETRY_DELAY to try again, or resolves to false.
connectDB_catch(st, call) ==
  LET down == [st EXCEPT !.isConnected = FALSE, !.prisma = 0]
  IN  IF st.connectionRetries < MAX_RETRIES
      THEN [ st   |-> [down EXCEPT !.connectionRetries = @ + 1],
             call |-> [call EXCEPT !.pc = "delay"] ]
      ELSE [ st   |-> down,
             call |-> [call EXCEPT !.pc = "done", !.result = "false"] ]

\* connectDB, lines 53-57: createPrismaClient, which throws when
\* DATABASE_URL is not set, then $connect on the new client, awaited.
connectDB_create(st, call) ==
  IF ~databaseUrlSet THEN connectDB_catch(st, call)
  ELSE LET id == Len(st.clients) + 1
       IN  [ st   |-> [st EXCEPT !.prisma = id,
                                 !.clients = Append(@, "connecting")],
             call |-> [call EXCEPT !.pc = "connecting", !.client = id,
                                   !.attempts = @ + 1] ]

\* connectDB from its first line to its first await.
connectDB(st, call) ==
  IF st.isConnected THEN [st |-> st, call |-> [call EXCEPT !.pc = "done", !.result = "true"]]
  ELSE IF st.prisma /= 0
  THEN [st |-> st, call |-> [call EXCEPT !.pc = "disconnecting", !.client = st.prisma]]
  ELSE connectDB_create(st, call)

\* The module-level variables take the values of st.
SetServerState(st) ==
  /\ prisma' = st.prisma
  /\ isConnected' = st.isConnected
  /\ connectionRetries' = st.connectionRetries
  /\ clients' = st.clients

\* startServer: app.listen, then its call of connectDB.
StartServer ==
  /\ dbCalls = <<>>
  /\ LET r == connectDB(ServerState, NewCall)
     IN  /\ SetServerState(r.st)
         /\ dbCalls' = <<r.call>>
  /\ UNCHANGED <<databaseUrlSet, apiReqs, healthReqs, scoreVars, submitVars,
                 voteVars, remarkVars, concVars, errVars>>

\* await prisma.$disconnect() of call c settles.
DisconnectSettles(c, ok) ==
  /\ dbCalls[c].pc = "disconnecting"
  /\ LET r == IF ok THEN connectDB_create(ServerState, dbCalls[c])
              ELSE connectDB_catch(ServerState, dbCalls[c])
     IN  /\ SetServerState(r.st)
         /\ dbCalls' = [dbCalls EXCEPT ![c] = r.call]
  /\ UNCHANGED <<databaseUrlSet, apiReqs, healthReqs, scoreVars, submitVars,
                 voteVars, remarkVars, concVars, errVars>>

\* await prisma.$connect() of call c settles: lines 59-62, or the catch.
ConnectSettles(c, ok) ==
  /\ dbCalls[c].pc = "connecting"
  /\ LET id == dbCalls[c].client
         r  == IF ok
               THEN [ st   |-> [ServerState EXCEPT !.clients[id] = "connected",
                                                   !.isConnected = TRUE,
                                                   !.connectionRetries = 0],
                      call |-> [dbCalls[c] EXCEPT !.pc = "done", !.result = "true"] ]
               ELSE connectDB_catch([ServerState EXCEPT !.clients[id] = "failed"],
                                    dbCalls[c])
     IN  /\ SetServerState(r.st)
         /\ dbCalls' = [dbCalls EXCEPT ![c] = r.call]
  /\ UNCHANGED <<databaseUrlSet, apiReqs, healthReqs, scoreVars, submitVars,
                 voteVars, remarkVars, concVars, errVars>>

\* The RETRY_DELAY timer of call c fires: return connectDB().
RetryDelayEnds(c) ==
  /\ dbCalls[c].pc = "delay"
  /\ LET r == connectDB(ServerState, dbCalls[c])
     IN  /\ SetServerState(r.st)
         /\ dbCalls' = [dbCalls EXCEPT ![c] = r.call]
  /\ UNCHANGED <<databaseUrlSet, apiReqs, healthReqs, scoreVars, submitVars,
                 voteVars, remarkVars, concVars, errVars>>

\* Faulty variant: the request goes on whatever connectDB resolved to.
apiThen_forward(connected) == "next"

\* The middleware's .then callback: what becomes of the request.
apiThen(connected) == IF ~connected THEN "503" ELSE "next"

\* A request under /api reaches the middleware.
ApiRequest ==
  /\ dbCalls /= <<>>
  /\ Len(apiReqs) < MaxApiReqs
  /\ IF ~isConnected
     THEN /\ LET r == connectDB(ServerState, NewCall)
            IN  /\ SetServerState(r.st)
                /\ dbCalls' = Append(dbCalls, r.call)
          /\ apiReqs' = Append(apiReqs, [ arrivedConnected |-> FALSE,
                                          call    |-> Len(dbCalls) + 1,
                                          outcome |-> "pending" ])
     ELSE /\ apiReqs' = Append(apiReqs, [ arrivedConnected |-> TRUE,
                                          call    |-> 0,
                                          outcome |-> "next" ])
          /\ UNCHANGED <<prisma, isConnected, connectionRetries, clients, dbCalls>>
  /\ UNCHANGED <<databaseUrlSet, healthReqs, scoreVars, submitVars,
                 voteVars, remarkVars, concVars, errVars>>

\* The connectDB call made for request r has resolved.
ApiConnected(r) ==
  /\ apiReqs[r].outcome = "pending"
  /\ dbCalls[apiReqs[r].call].pc = "done"
  /\ apiReqs' = [apiReqs EXCEPT ![r].outcome =
                    apiThen(dbCalls[apiReqs[r].call].result = "true")]
  /\ UNCHANGED <<databaseUrlSet, prisma, isConnected, connectionRetries, clients,
                 dbCalls, healthReqs, scoreVars, submitVars, voteVars,
                 remarkVars, concVars, errVars>>

\* The health handler after its probe failed: health.database = 'error',
\* connectDB() called and not awaited, and the answer, 503.
healthProbeFailed(st, calls_) ==
  LET r == connectDB(st, NewCall)
  IN  [ st    |-> r.st,
        calls |-> Append(calls_, r.call),
        req   |-> [ pc |-> "done", probe |-> "failed",
                    connectedAtFailure |-> st.isConnected,
                    call |-> Len(calls_) + 1, status |-> 503 ] ]

\* GET /api/health arrives.  Connected: the probe SELECT 1 is sent on the
\* module's client, which throws at once if that is null.  Not connected:
\* connectDB is called and awaited.
HealthRequest ==
  /\ dbCalls /= <<>>
  /\ Len(healthReqs) < MaxHealthReqs
  /\ IF isConnected /\ prisma /= 0
     THEN /\ healthReqs' = Append(healthReqs,
                [ pc |-> "probing", probe |-> "sent", connectedAtFailure |-> FALSE,
                  call |-> 0, status |-> 0 ])
          /\ UNCHANGED <<prisma, isConnected, connectionRetries, clients, dbCalls>>
     ELSE IF isConnected
     THEN LET f == healthProbeFailed(ServerState, dbCalls)
          IN  /\ SetServerState(f.st)
              /\ dbCalls' = f.calls
              /\ healthReqs' = Append(healthReqs, f.req)
     ELSE LET r == connectDB(ServerState, NewCall)
          IN  /\ SetServerState(r.st)
              /\ dbCalls' = Append(dbCalls, r.call)
              /\ healthReqs' = Append(healthReqs,
                    [ pc |-> "connecting", probe |-> "none",
                      connectedAtFailure |-> FALSE,
                      call |-> Len(dbCalls) + 1, status |-> 0 ])
  /\ UNCHANGED <<databaseUrlSet, apiReqs, scoreVars, submitVars,
                 voteVars, remarkVars, concVars, errVars>>

\* The probe of health request h settles.
HealthProbeSettles(h, ok) ==
  /\ healthReqs[h].pc = "probing"
  /\ IF ok
     THEN /\ healthReqs' = [healthReqs EXCEPT ![h].pc = "done", ![h].probe = "ok",
                                               ![h].status = 200]
          /\ UNCHANGED <<prisma, isConnected, connectionRetries, clients, dbCalls>>
     ELSE LET f == healthProbeFailed(ServerState, dbCalls)
          IN  /\ SetServerState(f.st)
              /\ dbCalls' = f.calls
              /\ healthReqs' = [healthReqs EXCEPT ![h] = f.req]
  /\ UNCHANGED <<databaseUrlSet, apiReqs, scoreVars, submitVars,
                 voteVars, remarkVars, concVars, errVars>>

\* The connectDB call awaited by health request h has resolved.
HealthConnected(h) ==
  /\ healthReqs[h].pc = "connecting"
  /\ dbCalls[healthReqs[h].call].pc = "done"
  /\ healthReqs' = [healthReqs EXCEPT ![h].pc = "done",
        ![h].status = IF dbCalls[healthReqs[h].call].result = "true" THEN 200 ELSE 503]
  /\ UNCHANGED <<databaseUrlSet, prisma, isConnected, connectionRetries, clients,
                 dbCalls, apiReqs, scoreVars, submitVars, voteVars,
                 remarkVars, concVars, errVars>>

--------------------------------------------------------------------------
(* The deployment-errors handler, pages/api/deployment/errors.ts.  A body   *)
(* field is <<>> when absent and <<x>> when it holds x.  A call of the      *)
(* Prisma client may throw (database down, invalid argument); the handler   *)
(* catches that.  The optional fields of the body are copied to the record  *)
(* as they are and are left out here.                                       *)

\* Requests handled by the deployment-errors handler.
MaxErrorReqs == 3

ErrorMethods == {"GET", "POST", "PUT"}
ErrorBodies ==
  [ errorMessage : {<<>>, <<"">>, <<"timeout">>},
    environment  : {<<>>, <<"production">>},
    resolved     : {<<>>, <<TRUE>>} ]

\* !x for a body field: absent, or the empty string.
falsy(x) == x = <<>> \/ x = <<"">>

\* prisma.deploymentError.create: the row the database adds, with the
\* schema's defaults for id and resolved.
createDeploymentError(table, data) ==
  [ id           |-> Len(table) + 1,
    errorMessage |-> data.errorMessage,
    environment  |-> data.environment,
    resolved     |-> FALSE ]

\* Faulty variant: '&&' for '||' in the test of the required fields.
handler_bothMissing(method, body, table, dbThrows) ==
  IF method /= "POST" /\ method /= "GET" THEN [status |-> 405, table |-> table]
  ELSE IF method = "GET"
  THEN IF dbThrows THEN [status |-> 500, table |-> table]
       ELSE [status |-> 200, table |-> table]
  ELSE IF falsy(body.errorMessage) /\ falsy(body.environment)
  THEN [status |-> 400, table |-> table]
  ELSE IF dbThrows THEN [status |-> 500, table |-> table]
  ELSE [ status |-> 201,
         table  |-> Append(table, createDeploymentError(table,
                      [ errorMessage |-> body.errorMessage,
                        environment  |-> body.environment ])) ]

\* handler: the status it answers with and the table it leaves.
handler(method, body, table, dbThrows) ==
  IF method /= "POST" /\ method /= "GET" THEN [status |-> 405, table |-> table]
  ELSE IF method = "GET"
  THEN IF dbThrows THEN [status |-> 500, table |-> table]
       ELSE [status |-> 200, table |-> table]
  ELSE IF falsy(body.errorMessage) \/ falsy(body.environment)
  THEN [status |-> 400, table |-> table]
  ELSE IF dbThrows THEN [status |-> 500, table |-> table]
  ELSE [ status |-> 201,
         table  |-> Append(table, createDeploymentError(table,
                      [ errorMessage |-> body.errorMessage,
                        environment  |-> body.environment ])) ]

\* A request to /api/deployment/errors is handled.
HandleErrorsRequest(method, body, dbThrows) ==
  /\ Len(errorReqs) < MaxErrorReqs
  /\ LET r == handler(method, body, deploymentErrors, dbThrows)
     IN  /\ deploymentErrors' = r.table
         /\ errorReqs' = Append(errorReqs, [method |-> method, status |-> r.status])
  /\ UNCHANGED <<scoreVars, submitVars, voteVars, remarkVars, concVars, serverVars>>

--------------------------------------------------------------------------
(* Specifications.                                                          *)

InitDraft ==
  /\ panel = RenderPanel(newEvaluation)
  /\ edits = 0

InitSubmit ==
  /\ calls = <<>>
  /\ toast = [variant |-> "none", shown |-> 0]
  /\ evaluations = <<>>
  /\ bodyScores = <<>>
  /\ directPosts = 0

InitVote ==
  /\ votes = {}
  /\ nextVoteId = 1
  /\ finalDecision = [v \in Vendors |-> "NULL"]
  /\ castHistory = [v \in Vendors |-> [u \in Users |-> <<>>]]
  /\ lastResult = [v \in Vendors |-> "NONE"]
  /\ runsSinceCast = [v \in Vendors |-> 0]
  /\ voteOps = 0

InitRemark ==
  /\ remarkField = "null"
  /\ remarkDialogOpen = FALSE
  /\ currentRemark = ""
  /\ remarkTimer = NoTimer
  /\ lastSave = NoSave

\* server.js as loaded, before startServer's call of connectDB.
InitServer ==
  /\ prisma = 0
  /\ isConnected = FALSE
  /\ connectionRetries = 0
  /\ clients = <<>>
  /\ dbCalls = <<>>
  /\ apiReqs = <<>>
  /\ healthReqs = <<>>

InitHost ==
  /\ voteReqs = <<>>
  /\ InitServer
  /\ deploymentErrors = <<>>
  /\ errorReqs = <<>>

\* The state after the component mounts and the server process is loaded.
Init ==
  /\ newEvaluation = emptyEvaluation
  /\ draftRemarks = emptyRemarks
  /\ databaseUrlSet = TRUE
  /\ InitDraft
  /\ InitSubmit
  /\ InitVote
  /\ InitRemark
  /\ InitHost

\* The score aggregator on a range of drafts: the form holds one of
\* BaseDrafts and up to MaxEdits score inputs are then changed.
InitScore ==
  /\ newEvaluation \in BaseDrafts
  /\ draftRemarks = emptyRemarks
  /\ databaseUrlSet = TRUE
  /\ InitDraft
  /\ InitSubmit
  /\ InitVote
  /\ InitRemark
  /\ InitHost

EditScore(field, text) ==
  /\ edits < MaxEdits
  /\ edits' = edits + 1
  /\ ScoreChange(field, text)
  /\ UNCHANGED <<submitVars, voteVars, remarkVars, hostVars>>

NextScore ==
  \E field \in ScoreFields, text \in InputTexts : EditScore(field, text)

SpecScore == InitScore /\ [][NextScore]_vars

\* The form as mounted, and up to MaxEdits score inputs then changed.
SpecForm == Init /\ [][NextScore]_vars

\* Editing and submitting the draft, with the server and other clients.
EditWhileSubmitting(field, text) ==
  /\ ScoreChange(field, text)
  /\ UNCHANGED <<edits, submitVars, voteVars, remarkVars, hostVars>>

NextSubmit ==
  \/ \E field \in SubmitFields, text \in SubmitTexts : EditWhileSubmitting(field, text)
  \/ SubmitClick
  \/ \E i \in DOMAIN calls, dbUp \in BOOLEAN : ServerHandle(i, dbUp)
  \/ \E i \in DOMAIN calls : FetchThrows(i)
  \/ \E i \in DOMAIN calls : SubmitReturn(i)
  \/ \E scores \in DirectScores, overallScore \in DirectOverallScores,
        dbUp \in BOOLEAN : DirectPost(scores, overallScore, dbUp)

SpecSubmit == Init /\ [][NextSubmit]_vars

\* Voting.
NextVote ==
  \/ \E v \in Vendors, u \in Users, x \in VoteValues : CastVote(v, u, x)
  \/ \E v \in Vendors : ResolveAgain(v)

SpecVote == Init /\ [][NextVote]_vars

\* Everything together.
\* Drafts that carry a remark, as the remark dialog leaves them.
RemarkedDrafts ==
  { emptyRemarks, [emptyRemarks EXCEPT ![remarkKey("experienceScore")] = "a"] }

\* Submitting drafts with and without remarks.
InitDraftSubmit ==
  /\ newEvaluation = emptyEvaluation
  /\ draftRemarks \in RemarkedDrafts
  /\ databaseUrlSet = TRUE
  /\ InitDraft
  /\ InitSubmit
  /\ InitVote
  /\ InitRemark
  /\ InitHost

SpecDraft == InitDraftSubmit /\ [][NextSubmit]_vars

\* The remark dialog.
NextRemark ==
  \/ \E field \in RemarkFields : OpenRemark(field)
  \/ \E text \in RemarkTexts : TypeRemark(text)
  \/ RemarkTimerFire
  \/ CancelRemark
  \/ SaveRemark

SpecRemark == Init /\ [][NextRemark]_vars

\* Vote requests of several users in flight at once.
NextConcurrentVotes ==
  \/ \E v \in Vendors, u \in Users, x \in VoteValues : VoteUpsert(v, u, x)
  \/ \E i \in 1..Len(voteReqs) : VoteResolveWrite(i)

SpecConcurrentVotes == Init /\ [][NextConcurrentVotes]_vars

\* The server process with DATABASE_URL set or not.
InitServerProcess ==
  /\ newEvaluation = emptyEvaluation
  /\ draftRemarks = emptyRemarks
  /\ databaseUrlSet \in BOOLEAN
  /\ InitDraft
  /\ InitSubmit
  /\ InitVote
  /\ InitRemark
  /\ InitHost

\* The steps of connectDB and of the requests that call it, while fewer
\* than maxCalls calls were made and fewer than maxClients clients created.
ServerStep(maxCalls, maxClients) ==
  \/ Len(dbCalls) < maxCalls /\ Len(clients) < maxClients /\ StartServer
  \/ Len(dbCalls) < maxCalls /\ Len(clients) < maxClients /\ ApiRequest
  \/ Len(dbCalls) < maxCalls /\ Len(clients) < maxClients /\ HealthRequest
  \/ /\ Len(dbCalls) < maxCalls /\ Len(clients) < maxClients
     /\ \E h \in 1..Len(healthReqs) : HealthProbeSettles(h, FALSE)
  \/ /\ Len(clients) < maxClients
     /\ \E c \in 1..Len(dbCalls) : DisconnectSettles(c, TRUE)
  \/ /\ Len(clients) < maxClients
     /\ \E c \in 1..Len(dbCalls) : RetryDelayEnds(c)
  \/ \E c \in 1..Len(dbCalls) : DisconnectSettles(c, FALSE)
  \/ \E c \in 1..Len(dbCalls), ok \in BOOLEAN : ConnectSettles(c, ok)
  \/ \E h \in 1..Len(healthReqs) : HealthProbeSettles(h, TRUE)

\* The steps that neither call connectDB nor resume a call of it.
ServerCallback ==
  \/ \E r \in 1..Len(apiReqs) : ApiConnected(r)
  \/ \E h \in 1..Len(healthReqs) : HealthConnected(h)

\* Requests of every kind, with connectDB calls of a few attempts each.
NextServer == ServerStep(MaxDbCalls, MaxClients) \/ ServerCallback

SpecServer == InitServerProcess /\ [][NextServer]_vars

\* Few calls of connectDB, their retries followed to the end.
NextRetry == ServerStep(MaxRetryCalls, MaxRetryClients) \/ ServerCallback

SpecRetry == InitServerProcess /\ [][NextRetry]_vars

\* The deployment-errors endpoint.
NextErrors ==
  \E method \in ErrorMethods, body \in ErrorBodies, dbThrows \in BOOLEAN :
    HandleErrorsRequest(method, body, dbThrows)

SpecErrors == Init /\ [][NextErrors]_vars

Next == NextScore \/ NextSubmit \/ NextVote \/ NextRemark \/ NextConcurrentVotes
        \/ NextErrors \/ NextServer

Spec == Init /\ [][Next]_vars

--------------------------------------------------------------------------
(* Properties of the score aggregator, checked under SpecScore.             *)

RECURSIVE SumTo(_, _)
\* g[1] + ... + g[n].
SumTo(g, n) == IF n = 0 THEN 0 ELSE g[n] + SumTo(g, n - 1)

\* The sum over the 18 score fields f of g[f].
SumFields(g) ==
  SumTo([i \in 1..Len(ScoreFieldList) |-> g[ScoreFieldList[i]]], Len(ScoreFieldList))

RECURSIVE SumOver(_, _)
\* The sum of g[x] over the x in the finite set S.
SumOver(S, g) ==
  IF S = {} THEN 0
  ELSE LET x == CHOOSE y \in S : TRUE
       IN  g[x] + SumOver(S \ {x}, g)

\* Every score of s lies in [0, 10].
InRange(s) == \A f \in ScoreFields : 0 <= s[f] /\ s[f] <= 10 * Scale

\* Every score of s is a whole number.
WholeScores(s) == \A f \in ScoreFields : s[f] % Scale = 0

\* The documented weight table, in percent.
DocumentedWeight ==
  [ experienceScore |-> 10, caseStudiesScore |-> 10, domainExperienceScore |-> 5,
    approachAlignmentScore |-> 7, understandingChallengesScore |-> 7,
    solutionTailoringScore |-> 6,
    strategyAlignmentScore |-> 7, methodologyScore |-> 6,
    innovativeStrategiesScore |-> 5, stakeholderEngagementScore |-> 5,
    toolsFrameworkScore |-> 3,
    costStructureScore |-> 6, costEffectivenessScore |-> 5, roiScore |-> 3,
    referencesScore |-> 6, testimonialsScore |-> 2, sustainabilityScore |-> 2,
    deliverablesScore |-> 5 ]

\* Sum over the criteria of (value / 10) * weight * 100, in model units.
DocumentedScore(s) ==
  SumFields([f \in ScoreFields |-> s[f] * DocumentedWeight[f]])

\* C1: for every draft with all 18 scores in [0,10], calculateWeightedScore
\* is the sum over the criteria of (value / 10) * weight * 100 under the
\* documented weight table, and the Total Score line shows that sum to two
\* decimals; for the worked example (8, 6, 10, all others 5) it is 56.50.
C1_WeightedSum ==
  /\ InRange(newEvaluation) =>
       /\ calculateWeightedScore(newEvaluation) = DocumentedScore(newEvaluation)
       /\ panel.total = toFixed2(DocumentedScore(newEvaluation))
  /\ newEvaluation = GoldenExample =>
       /\ 2 * calculateWeightedScore(newEvaluation) = 113 * PercentUnit
       /\ panel.total = 5650

C1_Witness ==
  /\ newEvaluation = GoldenExample
  /\ panel.total = 5650

\* C2: with all 18 scores in [0,10] the overall score lies in [0,100]; it
\* is exactly 100 when every score is 10 and exactly 0 when every score is 0.
C2_Range ==
  /\ InRange(newEvaluation) =>
       /\ 0 <= calculateWeightedScore(newEvaluation)
       /\ calculateWeightedScore(newEvaluation) <= 100 * PercentUnit
  /\ newEvaluation = Uniform(10 * Scale) =>
       /\ calculateWeightedScore(newEvaluation) = 100 * PercentUnit
       /\ panel.total = 10000
  /\ newEvaluation = emptyEvaluation =>
       /\ calculateWeightedScore(newEvaluation) = 0
       /\ panel.total = 0

C2_Witness ==
  /\ newEvaluation = Uniform(10 * Scale)
  /\ edits > 0
  /\ panel.total = 10000

\* The draft with one tick added to the score of f.
Bumped(s, f) == [s EXCEPT ![f] = @ + 1]

\* The category the schema lists each score column under.
CategoryOf ==
  [f \in ScoreFields |-> CHOOSE c \in Categories : f \in SchemaCategory[c]]

\* The weight (in percent) calculateWeightedScore gives each score: what
\* one more tick of it adds to the overall score.  Indexed as ScoreFieldList.
LeafWeights(s) ==
  LET base == calculateWeightedScore(s)
  IN  [i \in 1..Len(ScoreFieldList) |->
         calculateWeightedScore(Bumped(s, ScoreFieldList[i])) - base]

RECURSIVE CategoryWeight(_, _, _)
\* The sum of the leaf weights w[1..n] of the scores the schema lists under c.
CategoryWeight(w, c, n) ==
  IF n = 0 THEN 0
  ELSE (IF CategoryOf[ScoreFieldList[n]] = c THEN w[n] ELSE 0)
       + CategoryWeight(w, c, n - 1)

\* C3: the 18 leaf weights used by calculateWeightedScore sum to 100%; the
\* weights of the six categories sum to 25%, 20%, 26%, 14%, 10% and 5%; and
\* each of the 18 score columns of Evaluation is weighed in exactly one of
\* the six category terms, that of the category the schema lists it under.
C3_WeightPartition ==
  LET s == newEvaluation
      w == LeafWeights(s)
      n == Len(ScoreFieldList)
  IN  /\ DOMAIN s = ScoreFields
      /\ Cardinality(ScoreFields) = 18
      /\ \A f \in ScoreFields :
           Cardinality({c \in Categories : f \in SchemaCategory[c]}) = 1
      /\ SumTo(w, n) = 100
      /\ \A c \in Categories : CategoryWeight(w, c, n) = SchemaCategoryPercent[c]
      /\ \A i \in 1..n :
           LET b == Bumped(s, ScoreFieldList[i])
           IN  /\ w[i] > 0
               /\ \A c \in Categories :
                    categoryTerm(c, b) - categoryTerm(c, s)
                      = IF c = CategoryOf[ScoreFieldList[i]] THEN w[i] ELSE 0

C3_Witness ==
  /\ newEvaluation = Uniform(10 * Scale)
  /\ panel.category = [c \in Categories |-> 100 * SchemaCategoryPercent[c]]
  /\ panel.total = 10000

\* Denominator of the scaling factors k = j / KDen tried for linearity.
KDen == 4

\* The draft k * s for k = j / KDen, defined when every k * s[f] is a
\* whole number of ticks.
Scalable(s, j) == \A f \in ScoreFields : (j * s[f]) % KDen = 0
Scaled(s, j) == [f \in ScoreFields |-> (j * s[f]) \div KDen]

\* C4: for every draft s and factor k in [0,1], the overall score of k * s
\* is k times the overall score of s.
C4_Linearity ==
  \A j \in 0..KDen :
    Scalable(newEvaluation, j) =>
      KDen * calculateWeightedScore(Scaled(newEvaluation, j))
        = j * calculateWeightedScore(newEvaluation)

C4_Witness ==
  /\ edits > 0
  /\ calculateWeightedScore(newEvaluation) > 0
  /\ \E j \in 1..(KDen - 1) :
       /\ Scalable(newEvaluation, j)
       /\ Scaled(newEvaluation, j) # newEvaluation

\* The six category lines of the panel, added up.
ShownCategorySum == SumOver(Categories, panel.category)

\* Each category line of the panel is that category's term of
\* calculateWeightedScore, shown to two decimals.
LinesMatchTerms ==
  \A c \in Categories :
    /\ progressValue(c, newEvaluation) = categoryTerm(c, newEvaluation)
    /\ panel.category[c] = toFixed2(categoryTerm(c, newEvaluation))

\* C5 as stated: each category line is the sum of that category's
\* contributions as computed inside calculateWeightedScore, and the six
\* displayed lines add up to the displayed Total Score.
C5_ShownLinesAddUp ==
  /\ LinesMatchTerms
  /\ ShownCategorySum = panel.total

\* C5 amended: each category line is the sum of that category's
\* contributions as computed inside calculateWeightedScore, shown to two
\* decimals; the six sub-scores before rounding add up to the total before
\* rounding; the displayed lines add up to the displayed Total Score when
\* every score is a whole number in [0,10].
C5_SubScores ==
  /\ LinesMatchTerms
  /\ SumOver(Categories, [c \in Categories |-> progressValue(c, newEvaluation)])
       = calculateWeightedScore(newEvaluation)
  /\ panel.total = toFixed2(calculateWeightedScore(newEvaluation))
  /\ (WholeScores(newEvaluation) /\ InRange(newEvaluation)) =>
       ShownCategorySum = panel.total

C5_Witness ==
  /\ edits > 0
  /\ WholeScores(newEvaluation) /\ InRange(newEvaluation)
  /\ Cardinality({c \in Categories : panel.category[c] > 0}) >= 2
  /\ ShownCategorySum = panel.total

--------------------------------------------------------------------------
(* Properties of the submission, checked under SpecSubmit.                  *)

\* C6: whatever overallScore a request body carries, the overallScore of
\* the Evaluation row stored for it is the aggregator's result on the
\* criterion scores it submitted.
C6_ScoreRecomputed ==
  /\ Len(bodyScores) = Len(evaluations)
  /\ \A k \in DOMAIN evaluations :
       evaluations[k].overallScore = calculateWeightedScore(evaluations[k].scores)

C6_Witness ==
  \E k \in DOMAIN evaluations :
    /\ bodyScores[k] # calculateWeightedScore(evaluations[k].scores)
    /\ evaluations[k].overallScore = calculateWeightedScore(evaluations[k].scores)

\* C7: an overall score is computed and sent only for a draft that has
\* every criterion and every value in [0,10].
C7_InvalidNeverAggregated ==
  \A i \in DOMAIN calls : ValidSubmission(calls[i].scores)

--------------------------------------------------------------------------
(* Properties of voting, checked under SpecVote.                            *)

\* The users whose most recent vote for vendor v is x.
LatestVoters(v, x) ==
  {u \in Users : castHistory[v][u] # <<>>
                 /\ castHistory[v][u][Len(castHistory[v][u])] = x}

\* C8: over a vendor's current votes, one per distinct voter, the resolver
\* returns ACCEPTED when ACCEPT votes outnumber REJECT votes, REJECTED when
\* REJECT votes outnumber ACCEPT votes, and PENDING when the counts are
\* equal, no votes included.
C8_Resolver ==
  \A v \in Vendors :
    LET accept == Cardinality(LatestVoters(v, "ACCEPT"))
        reject == Cardinality(LatestVoters(v, "REJECT"))
        d      == resolveDecision(VotesOf(votes, v))
    IN  /\ accept > reject => d = "ACCEPTED"
        /\ reject > accept => d = "REJECTED"
        /\ accept = reject => d = "PENDING"
        /\ lastResult[v] # "NONE" => lastResult[v] = d

C8_Witness ==
  \E v \in Vendors :
    /\ Cardinality(LatestVoters(v, "ACCEPT")) = 2
    /\ Cardinality(LatestVoters(v, "REJECT")) = 1
    /\ lastResult[v] = "ACCEPTED"

\* C9: there is at most one stored VendorVote per (vendorId, userId), it
\* holds the user's most recent vote for the vendor, and only it is
\* counted: a single user voting ACCEPT then REJECT, with no other voters,
\* leaves the vendor REJECTED.
C9_LatestVoteWins ==
  /\ UniqueVendorUser(votes)
  /\ \A v \in Vendors, u \in Users :
       LET mine == {r \in votes : r.vendorId = v /\ r.userId = u}
           h    == castHistory[v][u]
       IN  IF h = <<>> THEN mine = {}
           ELSE /\ Cardinality(mine) = 1
                /\ \A r \in mine : r.vote = h[Len(h)]
  /\ \A v \in Vendors :
       (LatestVoters(v, "ACCEPT") = {} /\ Cardinality(LatestVoters(v, "REJECT")) = 1)
         => (lastResult[v] = "REJECTED" /\ finalDecision[v] = "REJECTED")

C9_Witness ==
  \E v \in Vendors, u \in Users :
    /\ castHistory[v][u] = <<"ACCEPT", "REJECT">>
    /\ \A o \in Users \ {u} : castHistory[v][o] = <<>>
    /\ Cardinality(VotesOf(votes, v)) = 1
    /\ finalDecision[v] = "REJECTED"

--------------------------------------------------------------------------
(* C11: concurrent vote requests.                                           *)

\* The requests handled for vendor v.
RequestsOf(v) == {i \in 1..Len(voteReqs) : voteReqs[i].vendorId = v}

\* The requests for v come from different users.
DifferentUsers(v) ==
  \A i, j \in RequestsOf(v) : voteReqs[i].userId = voteReqs[j].userId => i = j

\* The decision the complete set of votes requested for v calls for, as
\* Vendor.finalDecision holds it.
MajorityOfRequests(v) ==
  LET accept == Cardinality({i \in RequestsOf(v) : voteReqs[i].vote = "ACCEPT"})
      reject == Cardinality({i \in RequestsOf(v) : voteReqs[i].vote = "REJECT"})
  IN  IF accept > reject THEN "ACCEPTED"
      ELSE IF reject > accept THEN "REJECTED" ELSE "NULL"

--------------------------------------------------------------------------
(* C16: the draft after a submission.                                       *)

\* C16: when handleSubmitEvaluation resumes after its request, an ok
\* response resets the draft to emptyEvaluation (no score, no remark), and
\* any other outcome leaves the draft's scores and remarks as they were.
C16_ResetOnlyOnOk ==
  [][\A i \in 1..Len(calls) :
       SubmitReturn(i) =>
         IF calls[i].response = "ok"
         THEN newEvaluation' = emptyEvaluation /\ draftRemarks' = emptyRemarks
         ELSE newEvaluation' = newEvaluation /\ draftRemarks' = draftRemarks]_vars

\* A submission that failed, and its draft with a score and a remark.
C16_Witness ==
  \E i \in 1..Len(calls) :
    /\ calls[i].state = "finished"
    /\ calls[i].response /= "ok"
    /\ newEvaluation /= emptyEvaluation
    /\ draftRemarks /= emptyRemarks

--------------------------------------------------------------------------
(* C17: saving a remark.                                                    *)

\* C17: after 'Save Remark' is clicked on a non-empty text, and once no
\* timer is pending, the draft holds that text under the criterion's
\* remark key.
C17_RemarkSaved ==
  (lastSave.clicked /\ lastSave.text /= "" /\ ~remarkTimer.pending) =>
    draftRemarks[remarkKey(lastSave.field)] = lastSave.text

--------------------------------------------------------------------------
(* C18: the 'Weighted Score' line of each score input.                      *)

\* C18: with every score in 0..10, each criterion's displayed weighted
\* score is its contribution (value / 10) * weight * 100, shown to two
\* decimals, and the 18 displayed values add up to the score returned by
\* calculateWeightedScore.
C18_ShownContribution ==
  (InRange(newEvaluation) /\ WholeScores(newEvaluation)) =>
    /\ \A f \in ScoreFields :
         panel.weighted[f] = toFixed2(newEvaluation[f] * DocumentedWeight[f])
    /\ SumFields(panel.weighted) = toFixed2(calculateWeightedScore(newEvaluation))

--------------------------------------------------------------------------
(* C19: the deployment-errors handler and the DeploymentError table.        *)

\* The status of the request just handled.
AnsweredStatus == errorReqs'[Len(errorReqs')].status

\* The table after the step is the table before it and one more record.
OneRecordCreated ==
  /\ Len(deploymentErrors') = Len(deploymentErrors) + 1
  /\ SubSeq(deploymentErrors', 1, Len(deploymentErrors)) = deploymentErrors

\* C19 as stated: 405 for another method, 400 for a POST lacking a
\* required field, 200 for a GET, the table unchanged in the three cases;
\* a POST with both fields creates one unresolved record and gets 201.
C19_AsStated ==
  [][\A method \in ErrorMethods, body \in ErrorBodies, dbThrows \in BOOLEAN :
       HandleErrorsRequest(method, body, dbThrows) =>
         IF method /= "GET" /\ method /= "POST"
         THEN AnsweredStatus = 405 /\ deploymentErrors' = deploymentErrors
         ELSE IF method = "GET"
         THEN AnsweredStatus = 200 /\ deploymentErrors' = deploymentErrors
         ELSE IF falsy(body.errorMessage) \/ falsy(body.environment)
         THEN AnsweredStatus = 400 /\ deploymentErrors' = deploymentErrors
         ELSE /\ AnsweredStatus = 201
              /\ OneRecordCreated
              /\ ~deploymentErrors'[Len(deploymentErrors')].resolved]_vars

\* C19: as stated when the database calls succeed; when one throws, a GET
\* and a POST with both fields get 500 and the table is unchanged.
C19_ValidPostOnly ==
  [][\A method \in ErrorMethods, body \in ErrorBodies, dbThrows \in BOOLEAN :
       HandleErrorsRequest(method, body, dbThrows) =>
         IF method /= "GET" /\ method /= "POST"
         THEN AnsweredStatus = 405 /\ deploymentErrors' = deploymentErrors
         ELSE IF method = "GET"
         THEN /\ AnsweredStatus = (IF dbThrows THEN 500 ELSE 200)
              /\ deploymentErrors' = deploymentErrors
         ELSE IF falsy(body.errorMessage) \/ falsy(body.environment)
         THEN AnsweredStatus = 400 /\ deploymentErrors' = deploymentErrors
         ELSE IF dbThrows
         THEN AnsweredStatus = 500 /\ deploymentErrors' = deploymentErrors
         ELSE /\ AnsweredStatus = 201
              /\ OneRecordCreated
              /\ ~deploymentErrors'[Len(deploymentErrors')].resolved]_vars

\* A POST with both fields has created the table's one record, unresolved,
\* and requests of the other kinds were answered and left it alone.
C19_Witness ==
  /\ {errorReqs[k].status : k \in 1..Len(errorReqs)} \in
       { {405, 400, 201}, {200, 500, 201}, {400, 500, 201} }
  /\ Len(deploymentErrors) = 1
  /\ ~deploymentErrors[1].resolved

--------------------------------------------------------------------------
(* C12 - C15: the database connection of server.js.                         *)

\* C12: a request that reached the middleware goes on to the downstream
\* handler only if isConnected was true when it arrived or its connectDB
\* call resolved to true, and once its call has resolved to false and the
\* callback has run it is answered 503.
C12_Unavailable503 ==
  \A r \in 1..Len(apiReqs) :
    LET q == apiReqs[r]
    IN  /\ q.outcome = "next" =>
             (q.arrivedConnected \/ (q.call /= 0 /\ dbCalls[q.call].result = "true"))
        /\ (q.call /= 0 /\ dbCalls[q.call].result = "false" /\ q.outcome /= "pending")
             => q.outcome = "503"

\* A request arrived while the connection was down, its connectDB call
\* resolved to false, and the request was answered 503.
C12_Witness ==
  \E r \in 1..Len(apiReqs) :
    /\ ~apiReqs[r].arrivedConnected
    /\ dbCalls[apiReqs[r].call].result = "false"
    /\ apiReqs[r].outcome = "503"

\* C13: isConnected is true only if prisma is non-null and refers to a
\* client whose $connect succeeded.
C13_ConnectedClient ==
  isConnected => (prisma /= 0 /\ clients[prisma] = "connected")

\* C14: when the health probe failed while isConnected was true, the
\* connectDB call made then has created a client and called $connect.
C14_ProbeFailureReconnects ==
  \A h \in 1..Len(healthReqs) :
    (healthReqs[h].probe = "failed" /\ healthReqs[h].connectedAtFailure) =>
      dbCalls[healthReqs[h].call].attempts >= 1

\* C15: connectionRetries stays within 0..MAX_RETRIES, a call that has
\* resolved resolved to true or false, and no call makes more than
\* MAX_RETRIES + 1 connection attempts.
C15_BoundedAttempts ==
  /\ connectionRetries \in 0..MAX_RETRIES
  /\ \A c \in 1..Len(dbCalls) :
       /\ dbCalls[c].pc = "done" <=> dbCalls[c].result \in {"true", "false"}
       /\ dbCalls[c].attempts <= MAX_RETRIES + 1

==========================================================================
